---- MODULE Spec2Model ----
(***************************************************************************)
(* State-machine model of the Paso-chan networking core                    *)
(* (src/src/network_api.c): the global context g_network_ctx, the WiFi     *)
(* event handler, the background network_task and the public API.          *)
(*                                                                         *)
(* Execution contexts:                                                     *)
(*   - the application thread calling network_init / network_start /       *)
(*     network_stop (variable app),                                        *)
(*   - any thread calling network_send_message (one atomic step),          *)
(*   - the ESP event task running wifi_event_handler (one step per event), *)
(*   - the network_task instances created by xTaskCreate (variable task,   *)
(*     one program counter per task slot).                                 *)
(* A step of network_task is one stage of its loop body: the tests at the  *)
(* top, connect_to_server, vTaskDelay, select with recv, and the queue     *)
(* with send.  Steps of different contexts interleave freely.              *)
(***************************************************************************)
EXTENDS Integers, Sequences, FiniteSets, TLC

\* ------------------------------------------------------------------ bounds
\* Size of the socket table of the TCP/IP stack: socket() fails when all are open.
MaxSockets == 2
\* Each stats counter is explored up to this value.
MaxStat == 1
\* Number of queued messages that differ from the plain short message.
MaxVaried == 1
\* The peer's unterminated line may grow to this many bytes across reads.
MaxPending == 1
\* Number of messages queued at a time where the queue filling up is not at issue.
MaxQueued == 1
\* messages_received is explored up to this value where inbound data is at issue.
MaxReceived == 2
\* Messages the application hands over in the life of a session.
MaxSent == 2
\* Connections the relay accepts in the life of a session.
MaxReconnects == 2

\* ------------------------------------------------------- program constants
NETWORK_MAX_MESSAGE_LEN == 512
NETWORK_QUEUE_SIZE == 10
NETWORK_RECV_BUFFER_SIZE == 1024
WIFI_MAX_RETRY_COUNT == 5

NETWORK_STATE_DISCONNECTED == "NETWORK_STATE_DISCONNECTED"
NETWORK_STATE_WIFI_CONNECTED == "NETWORK_STATE_WIFI_CONNECTED"
NETWORK_STATE_SERVER_CONNECTED == "NETWORK_STATE_SERVER_CONNECTED"
NETWORK_STATE_ERROR == "NETWORK_STATE_ERROR"
network_state_t ==
    { NETWORK_STATE_DISCONNECTED, NETWORK_STATE_WIFI_CONNECTED,
      NETWORK_STATE_SERVER_CONNECTED, NETWORK_STATE_ERROR }

NETWORK_OK == "NETWORK_OK"
NETWORK_ERR_NOT_INITIALIZED == "NETWORK_ERR_NOT_INITIALIZED"
NETWORK_ERR_WIFI_FAILED == "NETWORK_ERR_WIFI_FAILED"
NETWORK_ERR_SERVER_FAILED == "NETWORK_ERR_SERVER_FAILED"
NETWORK_ERR_INVALID_PARAM == "NETWORK_ERR_INVALID_PARAM"
NETWORK_ERR_QUEUE_FULL == "NETWORK_ERR_QUEUE_FULL"

WIFI_CONNECTED_BIT == "WIFI_CONNECTED_BIT"
WIFI_FAIL_BIT == "WIFI_FAIL_BIT"

\* A C string is the sequence of its characters before the terminating NUL.
\* A pointer to a struct is the sequence holding the struct, or << >> when NULL;
\* a missing string is the one-element sequence NoString.
NL == "\n"
NULL == "NULL"
NoString == << NULL >>

\* ----------------------------------------------------------------- state
VARIABLES
    initialized,        \* network_init has created tx_queue, wifi_event_group, state_mutex
    config,             \* g_network_ctx.config
    message_callback,   \* g_network_ctx.message_callback is non-NULL
    state,              \* g_network_ctx.state
    sock_fd,            \* g_network_ctx.sock_fd
    running,            \* g_network_ctx.running
    wifi_retry_count,   \* g_network_ctx.wifi_retry_count
    stats,              \* g_network_ctx.stats
    tx_queue,           \* contents of g_network_ctx.tx_queue
    wifi_event_group,   \* bits set in g_network_ctx.wifi_event_group
    open_fds,           \* sockets open in the TCP/IP stack
    wifi,               \* the WiFi driver: what the station is doing
    task,               \* per task slot: where that network_task is
    app,                \* where the application thread is inside the API
    rx_pending,         \* bytes of the peer's current line already returned by recv()
    link_attempts,      \* esp_wifi_connect calls made on link loss since the last
                        \* got-IP event (since power-up before the first one)
    last,               \* the last operation performed and what it produced
    state_access,       \* the accesses to g_network_ctx.state made by the last step,
                        \* where they are recorded: who, read or write, mutex held
    health,             \* PasoChan::health
    hunger,             \* PasoChan::hunger
    happiness,          \* PasoChan::happiness
    stress              \* PasoChan::stress

vars == << initialized, config, message_callback, state, sock_fd, running,
           wifi_retry_count, stats, tx_queue, wifi_event_group, open_fds,
           wifi, task, app, rx_pending, link_attempts, last, state_access,
           health, hunger, happiness, stress >>

\* the attributes of the PasoChan object
pet == << health, hunger, happiness, stress >>

ctx == << initialized, config, message_callback, state, sock_fd, running,
          wifi_retry_count, stats, tx_queue, wifi_event_group >>

\* ---------------------------------------------------------------- helpers
Min(a, b) == IF a < b THEN a ELSE b

\* n copies of the character "a"
Fill(n) == [i \in 1..n |-> "a"]

\* size_t strlen(const char *s)
strlen(s) == Len(s)

\* char *strncpy(dst, src, n): the string left in dst once it is NUL-terminated
strncpy(src, n) == SubSeq(src, 1, Min(Len(src), n))

\* The identities a network_task can have; xTaskCreate fails when the slots
\* it may use are all taken.
Tasks == {1, 2}
Fds == 1..MaxSockets

zero_stats ==
    [messages_sent |-> 0, messages_received |-> 0, send_errors |-> 0, reconnect_count |-> 0]

NoOp == [op |-> "none", arg |-> NULL, ret |-> NULL, out |-> NULL]

\* ------------------------------------------------------------------ inputs
\* Configurations handed to network_init: a missing one, ones that lack a
\* mandatory field, a usable one, and one whose server_ip is not an IPv4 literal.
ZeroConfig == [wifi_ssid |-> NULL, server_ip |-> NULL, device_name |-> NULL]
GoodConfig == [wifi_ssid |-> "X", server_ip |-> "127.0.0.1", device_name |-> "D1"]
BadIpConfig == [wifi_ssid |-> "X", server_ip |-> "relay.local", device_name |-> "D1"]
Configs ==
    { << >>,
      << [wifi_ssid |-> NULL, server_ip |-> "127.0.0.1", device_name |-> "D1"] >>,
      << [wifi_ssid |-> "X", server_ip |-> NULL, device_name |-> "D1"] >>,
      << GoodConfig >>, << BadIpConfig >> }

\* Messages handed to network_send_message: the plain short one, a short one
\* that carries its terminator, the two of the largest accepted length, and
\* the rejected ones (missing, empty, too long).
PlainMsg == << "a" >>
Messages ==
    { NoString, << >>, PlainMsg, << "b", NL >>,
      Fill(NETWORK_MAX_MESSAGE_LEN - 1),
      Fill(NETWORK_MAX_MESSAGE_LEN - 2) \o << NL >>,
      Fill(NETWORK_MAX_MESSAGE_LEN) }

\* How many queued messages differ from the plain short one.
Varied(q) == Cardinality({ i \in 1..Len(q) : q[i].data # PlainMsg })

\* --------------------------------------------------------------- initial state
\* static network_context_t g_network_ctx = {0};
\* PasoChan::PasoChan(string name): the starting attributes
PasoChan ==
    /\ health = 100
    /\ hunger = 100
    /\ happiness = 50
    /\ stress = 40

Init ==
    /\ initialized = FALSE
    /\ config = ZeroConfig
    /\ message_callback = FALSE
    /\ state = NETWORK_STATE_DISCONNECTED
    /\ sock_fd = 0
    /\ running = FALSE
    /\ wifi_retry_count = 0
    /\ stats = zero_stats
    /\ tx_queue = << >>
    /\ wifi_event_group = {}
    /\ open_fds = {}
    /\ wifi = "off"
    /\ task = [t \in Tasks |-> "none"]
    /\ app = "idle"
    /\ rx_pending = << >>
    /\ link_attempts = 0
    /\ last = NoOp
    /\ state_access = {}
    /\ PasoChan

\* ------------------------------------------------------------ network_init
\* Variant: the test without its !config->server_ip.
ConfigValid_ssid_only(c) == ~(c = << >> \/ c[1].wifi_ssid = NULL)

\* if (!config || !config->wifi_ssid || !config->server_ip)
ConfigValid(c) == ~(c = << >> \/ c[1].wifi_ssid = NULL \/ c[1].server_ip = NULL)

network_init(c, callback) ==
    /\ app = "idle"
    /\ IF ~ConfigValid(c)
       THEN /\ last' = [op |-> "network_init", arg |-> c, ret |-> NETWORK_ERR_INVALID_PARAM, out |-> NULL]
            /\ UNCHANGED ctx
       ELSE /\ config' = c[1]
            /\ message_callback' = callback
            /\ state' = NETWORK_STATE_DISCONNECTED
            /\ sock_fd' = -1
            /\ running' = FALSE
            /\ stats' = zero_stats
            /\ tx_queue' = << >>
            /\ wifi_event_group' = {}
            /\ initialized' = TRUE
            /\ last' = [op |-> "network_init", arg |-> c, ret |-> NETWORK_OK, out |-> NULL]
            /\ UNCHANGED wifi_retry_count
    /\ UNCHANGED << open_fds, wifi, task, app, rx_pending, link_attempts >>

\* ---------------------------------------------------- network_send_message
\* Variant: the upper length test lets a message of NETWORK_MAX_MESSAGE_LEN through.
LengthAccepted_loose(len) == ~(len = 0 \/ len > NETWORK_MAX_MESSAGE_LEN)

LengthAccepted(len) == ~(len = 0 \/ len >= NETWORK_MAX_MESSAGE_LEN)

\* xQueueSend(queue, item, 0): succeeds iff the queue has a free slot
\* Variant: the queue reports full one slot early.
QueueHasRoom_early(q) == Len(q) < NETWORK_QUEUE_SIZE - 1

\* Variant: the queue takes one item more than its length.
QueueHasRoom_late(q) == Len(q) <= NETWORK_QUEUE_SIZE

QueueHasRoom(q) == Len(q) < NETWORK_QUEUE_SIZE
\* Variant: the item is stored twice.
xQueueSend_twice(q, item) == Append(Append(q, item), item)

xQueueSend(q, item) == Append(q, item)

MakeTxMsg(message) ==
    LET data == strncpy(message, NETWORK_MAX_MESSAGE_LEN - 1)
    IN  [data |-> data, length |-> strlen(data)]

\* Variant: a message the queue refuses is counted as a send error.
network_send_message_counts_drop(message) ==
    /\ initialized
    /\ IF message = NoString \/ ~LengthAccepted(strlen(message))
       THEN /\ last' = [op |-> "network_send_message", arg |-> message,
                        ret |-> NETWORK_ERR_INVALID_PARAM, out |-> NULL]
            /\ UNCHANGED << tx_queue, stats >>
       ELSE IF ~QueueHasRoom(tx_queue)
       THEN /\ last' = [op |-> "network_send_message", arg |-> message,
                        ret |-> NETWORK_ERR_QUEUE_FULL, out |-> NULL]
            /\ stats' = [stats EXCEPT !.send_errors = @ + 1]
            /\ UNCHANGED tx_queue
       ELSE /\ tx_queue' = xQueueSend(tx_queue, MakeTxMsg(message))
            /\ last' = [op |-> "network_send_message", arg |-> message,
                        ret |-> NETWORK_OK, out |-> NULL]
            /\ UNCHANGED stats
    /\ UNCHANGED << initialized, config, message_callback, state, sock_fd, running,
                    wifi_retry_count, wifi_event_group, open_fds, wifi,
                    task, app, rx_pending, link_attempts >>

network_send_message(message) ==
    /\ initialized
    /\ IF message = NoString
       THEN /\ last' = [op |-> "network_send_message", arg |-> message,
                        ret |-> NETWORK_ERR_INVALID_PARAM, out |-> NULL]
            /\ UNCHANGED tx_queue
       ELSE IF ~LengthAccepted(strlen(message))
       THEN /\ last' = [op |-> "network_send_message", arg |-> message,
                        ret |-> NETWORK_ERR_INVALID_PARAM, out |-> NULL]
            /\ UNCHANGED tx_queue
       ELSE IF ~QueueHasRoom(tx_queue)
       THEN /\ last' = [op |-> "network_send_message", arg |-> message,
                        ret |-> NETWORK_ERR_QUEUE_FULL, out |-> NULL]
            /\ UNCHANGED tx_queue
       ELSE /\ tx_queue' = xQueueSend(tx_queue, MakeTxMsg(message))
            /\ last' = [op |-> "network_send_message", arg |-> message,
                        ret |-> NETWORK_OK, out |-> NULL]
    /\ UNCHANGED << initialized, config, message_callback, state, sock_fd, running,
                    wifi_retry_count, stats, wifi_event_group, open_fds, wifi,
                    task, app, rx_pending, link_attempts >>

\* ------------------------------------------------- close_socket, set_state
\* static void close_socket(void): the new sock_fd and the sockets left open
\* Variant: close_socket without its assignment of -1 to sock_fd.
close_socket_keeps_fd(fd) == fd

close_socket_fd(fd) == IF fd >= 0 THEN -1 ELSE fd
\* Variant: close_socket closing whatever socket is open.
close_socket_open_all(fd, open) == IF fd >= 0 THEN {} ELSE open

\* Variant: close_socket without its close().
close_socket_open_leaks(fd, open) == open

close_socket_open(fd, open) == IF fd >= 0 THEN open \ {fd} ELSE open

\* static void set_state(new_state): one assignment under state_mutex
set_state(new_state) == state' = new_state

\* ------------------------------------------------------ wifi_event_handler
\* The driver states: "off" (not started), "started" (esp_wifi_start called,
\* WIFI_EVENT_STA_START not yet delivered), "connecting" (esp_wifi_connect in
\* progress), "up" (associated, IP obtained), "idle" (started, no attempt in
\* progress), "stopping" (stopped while associated: one last
\* WIFI_EVENT_STA_DISCONNECTED may still be delivered).
\* Variant: the retry test lets one attempt too many through.
RetryAllowed_inclusive(count) == count <= WIFI_MAX_RETRY_COUNT

\* Variant: the initial attempt is counted among the WIFI_MAX_RETRY_COUNT.
RetryAllowed_one_less(count) == count < WIFI_MAX_RETRY_COUNT - 1

RetryAllowed(count) == count < WIFI_MAX_RETRY_COUNT

wifi_event_STA_START ==
    /\ wifi = "started"
    /\ wifi' = "connecting"
    /\ last' = NoOp
    /\ UNCHANGED << ctx, open_fds, task, app, rx_pending, link_attempts >>

wifi_event_STA_DISCONNECTED ==
    /\ wifi \in {"connecting", "up", "stopping"}
    /\ initialized
    /\ IF RetryAllowed(wifi_retry_count)
       THEN /\ wifi' = IF wifi = "stopping" THEN "off" ELSE "connecting"
            /\ wifi_retry_count' = wifi_retry_count + 1
            /\ link_attempts' = link_attempts + 1
            /\ UNCHANGED wifi_event_group
            /\ last' = [op |-> "WIFI_EVENT_STA_DISCONNECTED", arg |-> wifi_retry_count,
                        ret |-> NULL, out |-> "esp_wifi_connect"]
       ELSE /\ wifi' = IF wifi = "stopping" THEN "off" ELSE "idle"
            /\ wifi_event_group' = wifi_event_group \cup {WIFI_FAIL_BIT}
            /\ UNCHANGED << wifi_retry_count, link_attempts >>
            /\ last' = [op |-> "WIFI_EVENT_STA_DISCONNECTED", arg |-> wifi_retry_count,
                        ret |-> NULL, out |-> WIFI_FAIL_BIT]
    /\ set_state(NETWORK_STATE_DISCONNECTED)
    /\ UNCHANGED << initialized, config, message_callback, sock_fd, running, stats,
                    tx_queue, open_fds, task, app, rx_pending >>

\* Variant: the handler without its reset of wifi_retry_count.
wifi_event_STA_GOT_IP_keeps_count ==
    /\ wifi = "connecting"
    /\ initialized
    /\ wifi' = "up"
    /\ wifi_retry_count' = wifi_retry_count
    /\ link_attempts' = 0
    /\ wifi_event_group' = wifi_event_group \cup {WIFI_CONNECTED_BIT}
    /\ set_state(NETWORK_STATE_WIFI_CONNECTED)
    /\ last' = [op |-> "IP_EVENT_STA_GOT_IP", arg |-> wifi_retry_count,
                ret |-> NULL, out |-> NULL]
    /\ UNCHANGED << initialized, config, message_callback, sock_fd, running, stats,
                    tx_queue, open_fds, task, app, rx_pending >>

wifi_event_STA_GOT_IP ==
    /\ wifi = "connecting"
    /\ initialized
    /\ wifi' = "up"
    /\ wifi_retry_count' = 0
    /\ link_attempts' = 0
    /\ wifi_event_group' = wifi_event_group \cup {WIFI_CONNECTED_BIT}
    /\ set_state(NETWORK_STATE_WIFI_CONNECTED)
    /\ last' = [op |-> "IP_EVENT_STA_GOT_IP", arg |-> wifi_retry_count,
                ret |-> NULL, out |-> NULL]
    /\ UNCHANGED << initialized, config, message_callback, sock_fd, running, stats,
                    tx_queue, open_fds, task, app, rx_pending >>

\* ----------------------------------------------- network_start, wifi_init_sta
\* xTaskCreate: the task slot the new network_task gets, 0 when none is free
FreeSlot(slots) ==
    IF \E t \in slots : task[t] = "none"
    THEN CHOOSE t \in slots : task[t] = "none" /\ \A u \in slots : task[u] = "none" => t <= u
    ELSE 0

\* Variant: network_start without its test of the running flag.
network_start_unguarded ==
    /\ app = "idle"
    /\ initialized
    /\ wifi' = IF wifi \in {"off", "stopping"} THEN "started" ELSE wifi
    /\ app' = "wifi_init_sta"
    /\ last' = NoOp
    /\ UNCHANGED << ctx, open_fds, task, rx_pending, link_attempts >>

\* network_start up to the xEventGroupWaitBits of wifi_init_sta
network_start ==
    /\ app = "idle"
    /\ initialized
    /\ IF running
       THEN /\ last' = [op |-> "network_start", arg |-> NULL, ret |-> NETWORK_OK, out |-> NULL]
            /\ UNCHANGED << wifi, app >>
       ELSE /\ wifi' = IF wifi \in {"off", "stopping"} THEN "started" ELSE wifi
            /\ app' = "wifi_init_sta"
            /\ last' = NoOp
    /\ UNCHANGED << ctx, open_fds, task, rx_pending, link_attempts >>

\* xEventGroupWaitBits returns; the rest of wifi_init_sta and of network_start
network_start_resume(slots) ==
    /\ app = "wifi_init_sta"
    /\ wifi_event_group # {}
    /\ app' = "idle"
    /\ IF WIFI_CONNECTED_BIT \in wifi_event_group
       THEN IF FreeSlot(slots) # 0
            THEN /\ running' = TRUE
                 /\ task' = [task EXCEPT ![FreeSlot(slots)] = "loop"]
                 /\ last' = [op |-> "network_start", arg |-> NULL, ret |-> NETWORK_OK,
                             out |-> "xTaskCreate"]
            ELSE /\ running' = FALSE
                 /\ UNCHANGED task
                 /\ last' = [op |-> "network_start", arg |-> NULL,
                             ret |-> NETWORK_ERR_NOT_INITIALIZED, out |-> NULL]
       ELSE /\ UNCHANGED << running, task >>
            /\ last' = [op |-> "network_start", arg |-> NULL,
                        ret |-> NETWORK_ERR_WIFI_FAILED, out |-> NULL]
    /\ UNCHANGED << initialized, config, message_callback, state, sock_fd,
                    wifi_retry_count, stats, tx_queue, wifi_event_group, open_fds,
                    wifi, rx_pending, link_attempts >>

\* ------------------------------------------------------------- network_stop
\* Variant: network_stop without its test of the running flag.
network_stop_unguarded ==
    /\ app = "idle"
    /\ running' = FALSE
    /\ sock_fd' = close_socket_fd(sock_fd)
    /\ open_fds' = close_socket_open(sock_fd, open_fds)
    /\ app' = "network_stop"
    /\ last' = NoOp
    /\ UNCHANGED << initialized, config, message_callback, state, wifi_retry_count,
                    stats, tx_queue, wifi_event_group, wifi, task, rx_pending,
                    link_attempts >>

\* Variant: network_stop also clears the stats.
network_stop_clears_stats ==
    /\ app = "idle"
    /\ IF ~running
       THEN /\ last' = [op |-> "network_stop", arg |-> NULL, ret |-> NETWORK_OK, out |-> NULL]
            /\ UNCHANGED << running, sock_fd, open_fds, app, stats >>
       ELSE /\ running' = FALSE
            /\ sock_fd' = close_socket_fd(sock_fd)
            /\ open_fds' = close_socket_open(sock_fd, open_fds)
            /\ stats' = zero_stats
            /\ app' = "network_stop"
            /\ last' = NoOp
    /\ UNCHANGED << initialized, config, message_callback, state, wifi_retry_count,
                    tx_queue, wifi_event_group, wifi, task, rx_pending,
                    link_attempts >>

\* network_stop up to its vTaskDelay(500 ms)
network_stop ==
    /\ app = "idle"
    /\ IF ~running
       THEN /\ last' = [op |-> "network_stop", arg |-> NULL, ret |-> NETWORK_OK, out |-> NULL]
            /\ UNCHANGED << running, sock_fd, open_fds, app >>
       ELSE /\ running' = FALSE
            /\ sock_fd' = close_socket_fd(sock_fd)
            /\ open_fds' = close_socket_open(sock_fd, open_fds)
            /\ app' = "network_stop"
            /\ last' = NoOp
    /\ UNCHANGED << initialized, config, message_callback, state, wifi_retry_count,
                    stats, tx_queue, wifi_event_group, wifi, task, rx_pending,
                    link_attempts >>

\* the delay is over: esp_wifi_disconnect, esp_wifi_stop, return
network_stop_resume ==
    /\ app = "network_stop"
    /\ app' = "idle"
    /\ wifi' = IF wifi \in {"connecting", "up"} THEN "stopping" ELSE "off"
    /\ last' = [op |-> "network_stop", arg |-> NULL, ret |-> NETWORK_OK, out |-> "esp_wifi_stop"]
    /\ UNCHANGED << ctx, open_fds, task, rx_pending, link_attempts >>

\* ------------------------------------------------------------ inbound data
\* What one recv() may return: chunks of the peer's byte stream.
RxChunks ==
    { << "a", NL, "b", NL >>,          \* two lines in one read
      << "a" >>,                       \* the start of a line, no terminator yet
      << "b", NL >>,                   \* one line, or the end of a split line
      << NL >>,                        \* a bare terminator
      << "a", NL, NL, "b", NL >>,      \* an empty line between two lines
      << "b", NL, "a" >> }             \* a line followed by the start of the next

\* char *strchr(buf + from, c): index of the first c at or after from, 0 if none
strchr(buf, from, c) ==
    IF \E i \in from..Len(buf) : buf[i] = c
    THEN CHOOSE i \in from..Len(buf) : buf[i] = c /\ \A j \in from..(i - 1) : buf[j] # c
    ELSE 0

\* Variant: the loop without its msg_len > 0 test.
RECURSIVE ExtractLines_keep_empty(_, _)
ExtractLines_keep_empty(rx_buffer, line_start) ==
    LET newline == strchr(rx_buffer, line_start, NL)
    IN  IF newline = 0
        THEN << >>
        ELSE << [message |-> SubSeq(rx_buffer, line_start, newline - 1),
                 length |-> newline - line_start] >>
             \o ExtractLines_keep_empty(rx_buffer, newline + 1)

\* Variant: the length handed to the callback counts the delimiter.
RECURSIVE ExtractLines_with_delimiter(_, _)
ExtractLines_with_delimiter(rx_buffer, line_start) ==
    LET newline == strchr(rx_buffer, line_start, NL)
    IN  IF newline = 0
        THEN << >>
        ELSE LET msg_len == newline - line_start
                 line == SubSeq(rx_buffer, line_start, newline - 1)
             IN  (IF msg_len > 0 THEN << [message |-> line, length |-> msg_len + 1] >> ELSE << >>)
                 \o ExtractLines_with_delimiter(rx_buffer, newline + 1)

\* The while loop of network_task over rx_buffer: the (line, msg_len) pairs that
\* pass the msg_len > 0 test, in order.
RECURSIVE ExtractLines(_, _)
ExtractLines(rx_buffer, line_start) ==
    LET newline == strchr(rx_buffer, line_start, NL)
    IN  IF newline = 0
        THEN << >>
        ELSE LET msg_len == newline - line_start
                 line == SubSeq(rx_buffer, line_start, newline - 1)
             IN  (IF msg_len > 0 THEN << [message |-> line, length |-> msg_len] >> ELSE << >>)
                 \o ExtractLines(rx_buffer, newline + 1)

\* The peer's bytes after the last terminator sent so far.
RECURSIVE LastLineStart(_, _)
LastLineStart(chunk, from) ==
    LET newline == strchr(chunk, from, NL)
    IN  IF newline = 0 THEN from ELSE LastLineStart(chunk, newline + 1)
PendingAfter(pending, chunk) ==
    IF strchr(chunk, 1, NL) = 0
    THEN pending \o chunk
    ELSE SubSeq(chunk, LastLineStart(chunk, 1), Len(chunk))

\* ------------------------------------------------------------ network_task
\* Ensure message ends with newline (network_api.c:384-390)
NewlineFits(length) == length < NETWORK_MAX_MESSAGE_LEN - 1

\* Variant: the terminator is appended without looking at the last byte.
EnsureNewline_always(tx_msg) ==
    IF NewlineFits(tx_msg.length)
    THEN [data |-> Append(tx_msg.data, NL), length |-> tx_msg.length + 1]
    ELSE tx_msg

EnsureNewline(tx_msg) ==
    IF tx_msg.data[tx_msg.length] # NL
    THEN IF NewlineFits(tx_msg.length)
         THEN [data |-> Append(tx_msg.data, NL), length |-> tx_msg.length + 1]
         ELSE tx_msg
    ELSE tx_msg

\* send(sock_fd, ...) can succeed only on an open socket
SendOutcomes == IF sock_fd \in open_fds THEN {TRUE, FALSE} ELSE {FALSE}

\* Variant: the format string without its "\n".
Hello_unterminated == << "DEVICE:", config.device_name >>

\* snprintf(hello_msg, sizeof(hello_msg), "DEVICE:%s\n", config.device_name)
Hello == << "DEVICE:", config.device_name, NL >>

\* while (g_network_ctx.running) and the state test at the top of the body
\* Variant: only a link that is up without a session keeps the task from the
\* read and write paths.
LoopBranch_serves_without_link(s) ==
    IF s = NETWORK_STATE_WIFI_CONNECTED THEN "connect" ELSE "select"

\* The tests of g_network_ctx.state at the top of the loop body: the connect
\* attempt, the bare sleep, or the read and write paths.
LoopBranch(s) ==
    IF s # NETWORK_STATE_SERVER_CONNECTED
    THEN IF s = NETWORK_STATE_WIFI_CONNECTED THEN "connect" ELSE "delay"
    ELSE "select"

task_loop(t) ==
    /\ task[t] = "loop"
    /\ IF ~running
       THEN task' = [task EXCEPT ![t] = "none"]
       ELSE task' = [task EXCEPT ![t] = LoopBranch(state)]
    /\ last' = NoOp
    /\ UNCHANGED << ctx, open_fds, wifi, app, rx_pending, link_attempts >>

\* connect_to_server: socket(), inet_pton(), connect()
inet_pton(ip) == IF ip = "127.0.0.1" THEN 1 ELSE 0

\* Variant: the loop goes round again without the vTaskDelay after the attempt.
AfterConnect_exit == "none"
AfterConnect_no_wait == "loop"

\* Where network_task goes when connect_to_server has returned: "Wait before
\* retry", whatever the result (network_api.c:322-324).
AfterConnect == "delay"

\* Variant: a successful connect_to_server is not counted.
count_reconnect_skipped(s) == s
\* stats.reconnect_count++ in network_task after connect_to_server() == NETWORK_OK
count_reconnect(s) == [s EXCEPT !.reconnect_count = @ + 1]

task_connect(t) ==
    /\ task[t] = "connect"
    /\ initialized
    /\ task' = [task EXCEPT ![t] = AfterConnect]
    /\ \E fd \in {-1} \cup (Fds \ open_fds), connected \in BOOLEAN :
         /\ fd # -1 => \A g \in Fds \ open_fds : fd <= g
         /\ IF fd < 0
            THEN /\ sock_fd' = fd
                 /\ last' = [op |-> "connect_to_server", arg |-> "socket",
                             ret |-> NETWORK_ERR_SERVER_FAILED, out |-> << >>]
                 /\ UNCHANGED << open_fds, state, stats, rx_pending >>
            ELSE IF inet_pton(config.server_ip) <= 0
            THEN /\ sock_fd' = close_socket_fd(fd)
                 /\ open_fds' = close_socket_open(fd, open_fds \cup {fd})
                 /\ last' = [op |-> "connect_to_server", arg |-> "inet_pton",
                             ret |-> NETWORK_ERR_SERVER_FAILED, out |-> << >>]
                 /\ UNCHANGED << state, stats, rx_pending >>
            ELSE IF ~connected
            THEN /\ sock_fd' = close_socket_fd(fd)
                 /\ open_fds' = close_socket_open(fd, open_fds \cup {fd})
                 /\ last' = [op |-> "connect_to_server", arg |-> "connect",
                             ret |-> NETWORK_ERR_SERVER_FAILED, out |-> << >>]
                 /\ UNCHANGED << state, stats, rx_pending >>
            ELSE /\ sock_fd' = fd
                 /\ open_fds' = open_fds \cup {fd}
                 /\ set_state(NETWORK_STATE_SERVER_CONNECTED)
                 /\ \E sent \in BOOLEAN :
                      last' = [op |-> "connect_to_server", arg |-> Hello,
                               ret |-> NETWORK_OK, out |-> IF sent THEN Hello ELSE << >>]
                 /\ stats' = count_reconnect(stats)
                 /\ rx_pending' = << >>
    /\ UNCHANGED << initialized, config, message_callback, running, wifi_retry_count,
                    tx_queue, wifi_event_group, wifi, app, link_attempts >>

\* vTaskDelay(reconnect_interval_ms); continue
task_delay(t) ==
    /\ task[t] = "delay"
    /\ task' = [task EXCEPT ![t] = "loop"]
    /\ last' = NoOp
    /\ UNCHANGED << ctx, open_fds, wifi, app, rx_pending, link_attempts >>

\* select() with the 100 ms timeout, then recv() and the handling of its result.
\* On an open socket select reports it readable or times out, and recv returns
\* a chunk, 0 or -1.  When sock_fd is not an open socket (closed by network_stop,
\* or -1) select fails or reports it, and recv can only fail.
AfterTimeout_no_tx == "loop"
\* where network_task goes when select times out: on to xQueueReceive
AfterTimeout == "tx"

task_select(t, chunks) ==
    /\ task[t] = "select"
    /\ initialized
    /\ \/ /\ task' = [task EXCEPT ![t] = AfterTimeout]
          /\ last' = NoOp
          /\ UNCHANGED << stats, sock_fd, open_fds, state, rx_pending >>
       \/ \E chunk \in chunks :
            LET lines == ExtractLines(chunk, 1) IN
            /\ sock_fd \in open_fds
            /\ Len(chunk) <= NETWORK_RECV_BUFFER_SIZE - 1
            /\ stats' = [stats EXCEPT !.messages_received = @ + Len(lines)]
            /\ rx_pending' = PendingAfter(rx_pending, chunk)
            /\ last' = [op |-> "recv", arg |-> chunk, ret |-> Len(chunk),
                        out |-> IF message_callback THEN lines ELSE << >>]
            /\ task' = [task EXCEPT ![t] = "tx"]
            /\ UNCHANGED << sock_fd, open_fds, state >>
       \/ \E len \in (IF sock_fd \in open_fds THEN {0, -1} ELSE {-1}) :
            /\ sock_fd' = close_socket_fd(sock_fd)
            /\ open_fds' = close_socket_open(sock_fd, open_fds)
            /\ set_state(NETWORK_STATE_WIFI_CONNECTED)
            /\ last' = [op |-> "recv", arg |-> << >>, ret |-> len, out |-> << >>]
            /\ task' = [task EXCEPT ![t] = "loop"]
            /\ rx_pending' = << >>
            /\ UNCHANGED stats
    /\ UNCHANGED << initialized, config, message_callback, running, wifi_retry_count,
                    tx_queue, wifi_event_group, wifi, app, link_attempts >>

\* Variant: a failed write is counted as a message sent as well.
count_send_error_and_sent(s) == [s EXCEPT !.send_errors = @ + 1, !.messages_sent = @ + 1]
\* stats.send_errors++
count_send_error(s) == [s EXCEPT !.send_errors = @ + 1]

\* xQueueReceive(tx_queue, &tx_msg, 0) and the transmission of tx_msg
task_tx(t) ==
    /\ task[t] = "tx"
    /\ initialized
    /\ task' = [task EXCEPT ![t] = "loop"]
    /\ IF tx_queue = << >>
       THEN /\ last' = NoOp
            /\ UNCHANGED << tx_queue, stats, sock_fd, open_fds, state, rx_pending >>
       ELSE LET tx_msg == EnsureNewline(Head(tx_queue)) IN
            /\ tx_queue' = Tail(tx_queue)
            /\ \E sent \in SendOutcomes :
                 IF ~sent
                 THEN /\ stats' = count_send_error(stats)
                      /\ sock_fd' = close_socket_fd(sock_fd)
                      /\ open_fds' = close_socket_open(sock_fd, open_fds)
                      /\ set_state(NETWORK_STATE_WIFI_CONNECTED)
                      /\ rx_pending' = << >>
                      /\ last' = [op |-> "send", arg |-> Head(tx_queue).data, ret |-> -1,
                                  out |-> << >>]
                 ELSE /\ stats' = [stats EXCEPT !.messages_sent = @ + 1]
                      /\ last' = [op |-> "send", arg |-> Head(tx_queue).data,
                                  ret |-> tx_msg.length,
                                  out |-> SubSeq(tx_msg.data, 1, tx_msg.length)]
                      /\ UNCHANGED << sock_fd, open_fds, state, rx_pending >>
    /\ UNCHANGED << initialized, config, message_callback, running, wifi_retry_count,
                    wifi_event_group, wifi, app, link_attempts >>

\* network_task going on after network_deinit has deleted the queue and the
\* mutex and zeroed the context: connect_to_server reads config.server_ip
\* (NULL) and set_state takes state_mutex, select works on sock_fd,
\* xQueueReceive reads tx_queue.  The access is made on a released or NULL
\* object; the task is taken to end there.
task_released_access(t) ==
    /\ task[t] \in {"connect", "select", "tx"}
    /\ ~initialized
    /\ task' = [task EXCEPT ![t] = "fault"]
    /\ last' = [op |-> "released_access", arg |-> task[t], ret |-> NULL, out |-> NULL]
    /\ UNCHANGED << ctx, open_fds, wifi, app, rx_pending, link_attempts >>

\* ----------------------------------------------------------- network_deinit
\* vQueueDelete, vEventGroupDelete, vSemaphoreDelete, memset(&g_network_ctx, 0),
\* sock_fd = -1
release_context ==
    /\ initialized' = FALSE
    /\ config' = ZeroConfig
    /\ message_callback' = FALSE
    /\ state' = NETWORK_STATE_DISCONNECTED
    /\ sock_fd' = -1
    /\ running' = FALSE
    /\ wifi_retry_count' = 0
    /\ stats' = zero_stats
    /\ tx_queue' = << >>
    /\ wifi_event_group' = {}
    /\ link_attempts' = 0      \* the count belongs to the instance released

\* network_deinit up to the vTaskDelay(500 ms) of its network_stop; when
\* nothing is running network_stop returns at once and the release follows.
network_deinit ==
    /\ app = "idle"
    /\ IF running
       THEN /\ running' = FALSE
            /\ sock_fd' = close_socket_fd(sock_fd)
            /\ open_fds' = close_socket_open(sock_fd, open_fds)
            /\ app' = "network_deinit"
            /\ last' = NoOp
            /\ UNCHANGED << initialized, config, message_callback, state,
                            wifi_retry_count, stats, tx_queue, wifi_event_group,
                            link_attempts >>
       ELSE /\ release_context
            /\ last' = [op |-> "network_deinit", arg |-> NULL, ret |-> NETWORK_OK, out |-> NULL]
            /\ UNCHANGED << open_fds, app >>
    /\ UNCHANGED << wifi, task, rx_pending >>

\* the delay is over: esp_wifi_disconnect, esp_wifi_stop, then the release
network_deinit_resume ==
    /\ app = "network_deinit"
    /\ app' = "idle"
    /\ wifi' = IF wifi \in {"connecting", "up"} THEN "stopping" ELSE "off"
    /\ release_context
    /\ last' = [op |-> "network_deinit", arg |-> NULL, ret |-> NETWORK_OK, out |-> "esp_wifi_stop"]
    /\ UNCHANGED << open_fds, task, rx_pending >>

\* ------------------------------------------------------------ specification
\* The bounds of the exploration are conditions on the state a step leads to.
StatsWithin(n) == \A f \in DOMAIN stats : stats[f] <= n

\* Spec: the whole core (API, link events, one network_task) with a light data
\* path: one kind of accepted message, one kind of inbound chunk, a short queue.
CtlBound ==
    /\ StatsWithin(MaxStat)
    /\ Len(tx_queue) <= MaxQueued
    /\ Len(rx_pending) <= MaxPending
\* a step of the networking core: it leaves the PasoChan object alone
Core(A) == A /\ UNCHANGED << state_access, pet >>
Ctl(A) == Core(A) /\ CtlBound'
CtlMessages == { PlainMsg }
CtlChunks == { << "b", NL >> }
CtlTasks == { 1 }

Next ==
    \/ Ctl(\E c \in Configs : network_init(c, TRUE))
    \/ Ctl(\E m \in CtlMessages : network_send_message(m))
    \/ Ctl(network_start)
    \/ Ctl(network_start_resume(CtlTasks))
    \/ Ctl(network_stop)
    \/ Ctl(network_stop_resume)
    \/ Ctl(wifi_event_STA_START)
    \/ Ctl(wifi_event_STA_DISCONNECTED)
    \/ Ctl(wifi_event_STA_GOT_IP)
    \/ Ctl(\E t \in CtlTasks : task_loop(t))
    \/ Ctl(\E t \in CtlTasks : task_connect(t))
    \/ Ctl(\E t \in CtlTasks : task_delay(t))
    \/ Ctl(\E t \in CtlTasks : task_select(t, CtlChunks))
    \/ Ctl(\E t \in CtlTasks : task_tx(t))

Spec == Init /\ [][Next]_vars

\* SpecLink: the link and the session without application data: the API, the
\* link events and one network_task that connects, waits and loses its session.
LinkBound == StatsWithin(MaxStat)
Link(A) == Core(A) /\ LinkBound'

NextLink ==
    \/ Link(\E c \in Configs : network_init(c, TRUE))
    \/ Link(network_start)
    \/ Link(network_start_resume(CtlTasks))
    \/ Link(network_stop)
    \/ Link(network_stop_resume)
    \/ Link(wifi_event_STA_START)
    \/ Link(wifi_event_STA_DISCONNECTED)
    \/ Link(wifi_event_STA_GOT_IP)
    \/ Link(\E t \in CtlTasks : task_loop(t))
    \/ Link(\E t \in CtlTasks : task_connect(t))
    \/ Link(\E t \in CtlTasks : task_delay(t))
    \/ Link(\E t \in CtlTasks : task_select(t, { }))
    \/ Link(\E t \in CtlTasks : task_tx(t))

SpecLink == Init /\ [][NextLink]_vars

\* SpecStats: everything that writes the stats next to everything that could:
\* the API with one configuration, the link events and one network_task that
\* sends, receives, fails and reconnects.
StatsBound ==
    /\ StatsWithin(MaxStat)
    /\ Len(tx_queue) <= MaxQueued
Stats(A) == Core(A) /\ StatsBound'

NextStats ==
    \/ Stats(network_init(<< GoodConfig >>, TRUE))
    \/ Stats(\E m \in CtlMessages : network_send_message(m))
    \/ Stats(network_start)
    \/ Stats(network_start_resume(CtlTasks))
    \/ Stats(network_stop)
    \/ Stats(network_stop_resume)
    \/ Stats(wifi_event_STA_START)
    \/ Stats(wifi_event_STA_DISCONNECTED)
    \/ Stats(wifi_event_STA_GOT_IP)
    \/ Stats(\E t \in CtlTasks : task_loop(t))
    \/ Stats(\E t \in CtlTasks : task_connect(t))
    \/ Stats(\E t \in CtlTasks : task_delay(t))
    \/ Stats(\E t \in CtlTasks : task_select(t, CtlChunks))
    \/ Stats(\E t \in CtlTasks : task_tx(t))

SpecStats == Init /\ [][NextStats]_vars

\* One step of network_task.  The task is a FreeRTOS task of its own and each
\* of its blocking calls is bounded (select 100 ms, vTaskDelay of the
\* reconnect interval, the socket calls end with a result), so a task that is
\* alive goes on taking steps.
WorkerStep ==
    \E t \in CtlTasks :
        \/ Link(task_loop(t))
        \/ Link(task_connect(t))
        \/ Link(task_delay(t))
        \/ Link(task_select(t, { }))
        \/ Link(task_tx(t))

\* SpecLinkFair: SpecLink with network_task scheduled fairly and the delays
\* inside network_start's wait and network_stop running out.
SpecLinkFair ==
    /\ SpecLink
    /\ WF_vars(WorkerStep)
    /\ WF_vars(Link(network_stop_resume))

\* A link connection attempt under way ends with one of the two events.
attempt_resolves ==
    /\ wifi = "connecting"
    /\ Link(wifi_event_STA_DISCONNECTED) \/ Link(wifi_event_STA_GOT_IP)

\* SpecLinkEvents: SpecLink where the driver delivers its events: the start
\* event after esp_wifi_start, an up or a loss event for every attempt, and
\* xEventGroupWaitBits returning once a bit is set.
SpecLinkEvents ==
    /\ SpecLink
    /\ WF_vars(Link(wifi_event_STA_START))
    /\ WF_vars(attempt_resolves)
    /\ WF_vars(Link(network_start_resume(CtlTasks)))

\* network_state_t network_get_state(void)
network_get_state ==
    /\ app = "idle"
    /\ initialized
    /\ last' = [op |-> "network_get_state", arg |-> NULL, ret |-> state, out |-> NULL]
    /\ UNCHANGED << ctx, open_fds, wifi, task, app, rx_pending, link_attempts >>

\* One access to g_network_ctx.state: by whom, a read or a write, between
\* xSemaphoreTake(state_mutex) and xSemaphoreGive(state_mutex) or not.
StateAccess(by, kind, locked) == [by |-> by, kind |-> kind, taken |-> locked, given |-> locked]
via_set_state(by) == { StateAccess(by, "write", TRUE) }

\* The accesses each operation makes in the step just taken.
\* network_init assigns state directly, before state_mutex is created
access_network_init ==
    IF last'.ret = NETWORK_OK THEN { StateAccess("api", "write", FALSE) } ELSE {}
\* network_get_state reads under the mutex
access_network_get_state == { StateAccess("api", "read", TRUE) }
\* both events end with set_state
access_wifi_event == via_set_state("wifi_event_handler")
\* the tests of g_network_ctx.state at the top of the loop body
access_task_loop ==
    IF running THEN { StateAccess("network_task", "read", FALSE) } ELSE {}
\* connect_to_server calls set_state when connect() succeeded
access_task_connect ==
    IF last'.ret = NETWORK_OK THEN via_set_state("network_task") ELSE {}
\* the read and write failure paths call set_state
access_task_select ==
    IF last'.op = "recv" /\ last'.ret <= 0 THEN via_set_state("network_task") ELSE {}
access_task_tx ==
    IF last'.op = "send" /\ last'.ret < 0 THEN via_set_state("network_task") ELSE {}

Recorded(A, accesses) ==
    A /\ LinkBound' /\ state_access' = accesses /\ UNCHANGED pet

\* SpecState: SpecLink with network_get_state, every step recording the
\* accesses it makes to g_network_ctx.state.
NextState ==
    \/ Recorded(\E c \in Configs : network_init(c, TRUE), access_network_init)
    \/ Recorded(network_get_state, access_network_get_state)
    \/ Recorded(network_start, {})
    \/ Recorded(network_start_resume(CtlTasks), {})
    \/ Recorded(network_stop, {})
    \/ Recorded(network_stop_resume, {})
    \/ Recorded(wifi_event_STA_START, {})
    \/ Recorded(wifi_event_STA_DISCONNECTED, access_wifi_event)
    \/ Recorded(wifi_event_STA_GOT_IP, access_wifi_event)
    \/ Recorded(\E t \in CtlTasks : task_loop(t), access_task_loop)
    \/ Recorded(\E t \in CtlTasks : task_connect(t), access_task_connect)
    \/ Recorded(\E t \in CtlTasks : task_delay(t), {})
    \/ Recorded(\E t \in CtlTasks : task_select(t, { }), access_task_select)
    \/ Recorded(\E t \in CtlTasks : task_tx(t), access_task_tx)

SpecState == Init /\ [][NextState]_vars

\* SpecLife: the life of an instance from network_init to network_deinit and
\* over again: the API with network_deinit, the link events and one
\* network_task, without application data.
NextLife ==
    \/ Link(\E c \in { << >>, << GoodConfig >> } : network_init(c, TRUE))
    \/ Link(network_start)
    \/ Link(network_start_resume(CtlTasks))
    \/ Link(network_stop)
    \/ Link(network_stop_resume)
    \/ Link(network_deinit)
    \/ Link(network_deinit_resume)
    \/ Link(wifi_event_STA_START)
    \/ Link(wifi_event_STA_DISCONNECTED)
    \/ Link(wifi_event_STA_GOT_IP)
    \/ Link(\E t \in CtlTasks : task_loop(t))
    \/ Link(\E t \in CtlTasks : task_connect(t))
    \/ Link(\E t \in CtlTasks : task_delay(t))
    \/ Link(\E t \in CtlTasks : task_select(t, { }))
    \/ Link(\E t \in CtlTasks : task_tx(t))
    \/ Link(\E t \in CtlTasks : task_released_access(t))

SpecLife == Init /\ [][NextLife]_vars

\* The state once network_init(GoodConfig), network_start and the first
\* IP_EVENT_STA_GOT_IP are through: the link is up and the task is about to run.
Started(callback) ==
    /\ initialized = TRUE
    /\ config = GoodConfig
    /\ message_callback = callback
    /\ state = NETWORK_STATE_WIFI_CONNECTED
    /\ sock_fd = -1
    /\ running = TRUE
    /\ wifi_retry_count = 0
    /\ stats = zero_stats
    /\ tx_queue = << >>
    /\ wifi_event_group = {WIFI_CONNECTED_BIT}
    /\ open_fds = {}
    /\ wifi = "up"
    /\ task = [t \in Tasks |-> IF t = 1 THEN "loop" ELSE "none"]
    /\ app = "idle"
    /\ rx_pending = << >>
    /\ link_attempts = 0
    /\ last = [op |-> "network_start", arg |-> NULL, ret |-> NETWORK_OK, out |-> "xTaskCreate"]
    /\ state_access = {}
    /\ PasoChan

InitStarted == \E callback \in BOOLEAN : Started(callback)

\* SpecSession: a started instance in service: the application queues
\* messages, the relay accepts, refuses, sends and closes, the link is lost and
\* comes back, and network_stop ends it.  What is bounded is what comes from
\* outside: the messages the application hands over, the lines the relay
\* sends and the connections it accepts.
Handed == stats.messages_sent + stats.send_errors + Len(tx_queue)
SessionBound ==
    /\ Handed <= MaxSent
    /\ stats.reconnect_count <= MaxReconnects
    /\ stats.messages_received <= MaxStat
    /\ Len(rx_pending) <= MaxPending
Session(A) == Core(A) /\ SessionBound'

SessionWorkerStep ==
    \E t \in CtlTasks :
        \/ Session(task_loop(t))
        \/ Session(task_connect(t))
        \/ Session(task_delay(t))
        \/ Session(task_select(t, CtlChunks))
        \/ Session(task_tx(t))

\* connect() returning 0: the relay accepts the connection
relay_accepts ==
    /\ \E t \in CtlTasks : Session(task_connect(t))
    /\ last'.ret = NETWORK_OK

NextSession ==
    \/ Session(\E m \in CtlMessages : network_send_message(m))
    \/ Session(network_stop)
    \/ Session(network_stop_resume)
    \/ Session(wifi_event_STA_DISCONNECTED)
    \/ Session(wifi_event_STA_GOT_IP)
    \/ Session(\E t \in CtlTasks : task_loop(t))
    \/ Session(\E t \in CtlTasks : task_connect(t))
    \/ Session(\E t \in CtlTasks : task_delay(t))
    \/ Session(\E t \in CtlTasks : task_select(t, CtlChunks))
    \/ Session(\E t \in CtlTasks : task_tx(t))

\* network_task is scheduled fairly, and a relay that goes on being asked
\* accepts in the end.
SpecSession ==
    /\ Started(TRUE) /\ [][NextSession]_vars
    /\ WF_vars(SessionWorkerStep)
    /\ SF_vars(relay_accepts)

\* SpecRestart: a started instance stopped and started again, with room for
\* a second network_task: xTaskCreate makes a new task whether or not an
\* earlier one has ended.
NextRestart ==
    \/ Link(network_start)
    \/ Link(network_start_resume(Tasks))
    \/ Link(network_stop)
    \/ Link(network_stop_resume)
    \/ Link(wifi_event_STA_START)
    \/ Link(wifi_event_STA_DISCONNECTED)
    \/ Link(wifi_event_STA_GOT_IP)
    \/ Link(\E t \in Tasks : task_loop(t))
    \/ Link(\E t \in Tasks : task_connect(t))
    \/ Link(\E t \in Tasks : task_delay(t))
    \/ Link(\E t \in Tasks : task_select(t, { }))
    \/ Link(\E t \in Tasks : task_tx(t))

SpecRestart == Started(TRUE) /\ [][NextRestart]_vars

\* SpecQueue: the outbound queue between its producers and the task, from the
\* started state: messages of every limit length, the queue up to its capacity,
\* no inbound data.
QueueBound ==
    /\ StatsWithin(MaxStat)
    /\ Varied(tx_queue) <= MaxVaried
Queue(A) == Core(A) /\ QueueBound'

\* The lengths on both sides of each limit of network_send_message.
QueueMessages ==
    { NoString, << >>, PlainMsg, Fill(NETWORK_MAX_MESSAGE_LEN - 1),
      Fill(NETWORK_MAX_MESSAGE_LEN) }

NextQueue ==
    \/ Queue(\E m \in QueueMessages : network_send_message(m))
    \/ Queue(task_loop(1))
    \/ Queue(task_connect(1))
    \/ Queue(task_delay(1))
    \/ Queue(task_select(1, { }))
    \/ Queue(task_tx(1))

SpecQueue == Started(TRUE) /\ [][NextQueue]_vars

\* SpecData: the bytes going through an established session, from the started
\* state: every kind of message and of inbound chunk, a short queue.
DataBound ==
    /\ stats.messages_sent <= MaxStat
    /\ stats.send_errors <= MaxStat
    /\ stats.reconnect_count <= MaxStat
    /\ stats.messages_received <= MaxReceived
    /\ Len(tx_queue) <= MaxQueued
    /\ Len(rx_pending) <= MaxPending
Data(A) == Core(A) /\ DataBound'

NextData ==
    \/ Data(\E m \in Messages : network_send_message(m))
    \/ Data(task_loop(1))
    \/ Data(task_connect(1))
    \/ Data(task_delay(1))
    \/ Data(task_select(1, RxChunks))
    \/ Data(task_tx(1))

SpecData == InitStarted /\ [][NextData]_vars

\* ------------------------------------------------------------------ claims
Alive == { t \in Tasks : task[t] # "none" }
Last(q) == q[Len(q)]

\* C1: a send of a message of length 1..511 either returns NETWORK_OK and the
\* queue is the old queue with that message appended, or returns
\* NETWORK_ERR_QUEUE_FULL with the queue holding 10 entries and left unchanged.
C1_SendQueuesOrReportsFull ==
    [][ (/\ last'.op = "network_send_message"
         /\ last'.arg # NoString
         /\ Len(last'.arg) >= 1 /\ Len(last'.arg) <= 511)
        => \/ /\ last'.ret = NETWORK_OK
              /\ tx_queue' = Append(tx_queue, [data |-> last'.arg, length |-> Len(last'.arg)])
           \/ /\ last'.ret = NETWORK_ERR_QUEUE_FULL
              /\ Len(tx_queue) = 10
              /\ tx_queue' = tx_queue ]_vars

\* C1 witness: a send was rejected with the queue full, one of the ten queued
\* messages being of the largest accepted length.
C1_Witness ==
    /\ last.op = "network_send_message"
    /\ last.ret = NETWORK_ERR_QUEUE_FULL
    /\ Len(tx_queue) = 10
    /\ \E i \in 1..10 : tx_queue[i].length = 511

\* C2: a send of a missing, an empty or a 512-byte (or longer) message returns
\* NETWORK_ERR_INVALID_PARAM and leaves the queue, the state and the stats alone.
C2_InvalidSendRejected ==
    [][ (/\ last'.op = "network_send_message"
         /\ (last'.arg = NoString \/ Len(last'.arg) = 0 \/ Len(last'.arg) >= 512))
        => /\ last'.ret = NETWORK_ERR_INVALID_PARAM
           /\ tx_queue' = tx_queue
           /\ state' = state
           /\ stats' = stats ]_vars

\* C2 witness: a 512-byte message was rejected while messages were queued.
C2_Witness ==
    /\ last.op = "network_send_message"
    /\ last.ret = NETWORK_ERR_INVALID_PARAM
    /\ Len(last.arg) = 512
    /\ tx_queue # << >>

\* C3: the bytes written for a dequeued payload that does not end in "\n" are
\* the payload followed by one "\n", whatever its length (511 included).
C3_TerminatorAppended ==
    (/\ last.op = "send"
     /\ last.ret >= 0
     /\ Last(last.arg) # NL)
    => last.out = Append(last.arg, NL)

\* C4: the bytes written for a dequeued payload that ends in "\n" are the
\* payload itself.
C4_TerminatorNotDoubled ==
    (/\ last.op = "send"
     /\ last.ret >= 0
     /\ Last(last.arg) = NL)
    => last.out = last.arg

\* C4 witness: a payload of the largest accepted length ending in "\n" was written.
C4_Witness ==
    /\ last.op = "send"
    /\ last.ret = 511
    /\ Last(last.arg) = NL
    /\ last.out = last.arg

\* C5: when the peer's line was begun by an earlier read (rx_pending) and its
\* terminator arrives in this read, the first message handed to the callback
\* is the whole line: the bytes already read followed by this chunk's bytes up
\* to the terminator.
C5_SplitLineReassembled ==
    [][ (/\ last'.op = "recv"
         /\ last'.ret > 0
         /\ message_callback
         /\ rx_pending # << >>
         /\ \E i \in 1..Len(last'.arg) : last'.arg[i] = NL)
        => /\ last'.out # << >>
           /\ last'.out[1].message =
                rx_pending \o SubSeq(last'.arg, 1, strchr(last'.arg, 1, NL) - 1) ]_vars

\* The non-empty "\n"-terminated lines of a chunk, by the positions of its "\n".
C6_Ends(chunk) == { e \in 1..Len(chunk) : chunk[e] = NL }
C6_Start(chunk, e) ==
    IF \E j \in C6_Ends(chunk) : j < e
    THEN 1 + CHOOSE j \in C6_Ends(chunk) : j < e /\ \A k \in C6_Ends(chunk) : k < e => k <= j
    ELSE 1
C6_NonEmptyEnds(chunk) == { e \in C6_Ends(chunk) : C6_Start(chunk, e) < e }
C6_Lines(chunk) ==
    LET ends == C6_NonEmptyEnds(chunk)
        nth(k) == CHOOSE e \in ends : Cardinality({ d \in ends : d < e }) = k - 1
    IN  [k \in 1..Cardinality(ends) |-> SubSeq(chunk, C6_Start(chunk, nth(k)), nth(k) - 1)]

\* C6: a read of a chunk with k non-empty terminated lines adds k to
\* messages_received and, with a callback registered, invokes it k times, in
\* order, with each line without its terminator and with that line's length.
C6_LinesDelivered ==
    [][ (last'.op = "recv" /\ last'.ret > 0)
        => LET lines == C6_Lines(last'.arg) IN
           /\ stats'.messages_received = stats.messages_received + Len(lines)
           /\ message_callback =>
                /\ Len(last'.out) = Len(lines)
                /\ \A k \in 1..Len(lines) :
                     /\ last'.out[k].message = lines[k]
                     /\ last'.out[k].length = Len(lines[k]) ]_vars

\* C6 witness: one read returned "a\nb\n" and the callback got "a" then "b".
C6_Witness ==
    /\ last.op = "recv"
    /\ last.arg = << "a", NL, "b", NL >>
    /\ Len(last.out) = 2
    /\ last.out[1].message = << "a" >>
    /\ last.out[2].message = << "b" >>
    /\ stats.messages_received = 2

\* C7: the state is always one of the four enumerators, and it becomes
\* NETWORK_STATE_SERVER_CONNECTED only from NETWORK_STATE_WIFI_CONNECTED.
C7_SessionOnlyFromLink ==
    [][ /\ state' \in network_state_t
        /\ (state' = NETWORK_STATE_SERVER_CONNECTED /\ state # NETWORK_STATE_SERVER_CONNECTED)
             => state = NETWORK_STATE_WIFI_CONNECTED ]_vars

\* C8: since the last got-IP event (or since power-up) at most 5
\* reconnection attempts have been made on link loss, and a link loss handled
\* with the retry counter at 5 makes none and raises the failure bit.
C8_BoundedReconnect ==
    [][ /\ link_attempts' <= 5
        /\ (last'.op = "WIFI_EVENT_STA_DISCONNECTED" /\ wifi_retry_count >= 5)
             => /\ link_attempts' = link_attempts
                /\ wifi' # "connecting"
                /\ last'.out = WIFI_FAIL_BIT
                /\ WIFI_FAIL_BIT \in wifi_event_group' ]_vars

\* C8 witness: the failure bit was raised after exactly 5 reconnection attempts.
C8_Witness ==
    /\ last.op = "WIFI_EVENT_STA_DISCONNECTED"
    /\ last.out = WIFI_FAIL_BIT
    /\ link_attempts = 5

\* C9: right after a got-IP event is handled the retry counter is 0.
C9_RetryResetOnLinkUp ==
    last.op = "IP_EVENT_STA_GOT_IP" => wifi_retry_count = 0

\* C9 witness: a got-IP event was handled with the retry counter at 5 before it.
C9_Witness ==
    /\ last.op = "IP_EVENT_STA_GOT_IP"
    /\ last.arg = 5
    /\ wifi_retry_count = 0

\* C10: network_start called while running returns NETWORK_OK at once, starts
\* no link bring-up and creates no task: the one task alive stays the only one.
C10_StartWhileRunning ==
    [][ (network_start /\ running)
        => /\ last'.op = "network_start" /\ last'.ret = NETWORK_OK
           /\ app' = "idle"
           /\ wifi' = wifi
           /\ running'
           /\ task' = task
           /\ Cardinality(Alive) = 1 => Cardinality(Alive') = 1 ]_vars

\* C10 witness: network_start returned at once with the task alive.
C10_Witness ==
    /\ last.op = "network_start"
    /\ last.ret = NETWORK_OK
    /\ last.out = NULL
    /\ running
    /\ Cardinality(Alive) = 1

\* C11: network_stop called while not running returns NETWORK_OK and leaves
\* the whole context, the sockets, the WiFi driver and the tasks as they were.
C11_StopWhileStopped ==
    [][ (network_stop /\ ~running)
        => /\ last'.op = "network_stop" /\ last'.ret = NETWORK_OK
           /\ ctx' = ctx
           /\ open_fds' = open_fds
           /\ wifi' = wifi
           /\ task' = task
           /\ app' = "idle" ]_vars

\* C11 witness: network_stop returned at once on an instance stopped earlier,
\* whose state and stats still show the session it had.
C11_Witness ==
    /\ last.op = "network_stop"
    /\ last.out = NULL
    /\ ~running
    /\ state = NETWORK_STATE_SERVER_CONNECTED
    /\ stats.reconnect_count = 1

C13_ReadFailureDemotes ==
    [][ (/\ last'.op = "recv"
         /\ last'.ret <= 0
         /\ state = NETWORK_STATE_SERVER_CONNECTED)
        => /\ state' = NETWORK_STATE_WIFI_CONNECTED
           /\ sock_fd' = -1
           /\ sock_fd \notin open_fds'
           /\ tx_queue' = tx_queue
           /\ stats' = stats
           /\ \A t \in Tasks : task[t] = "select" /\ task'[t] # "select" => task'[t] = "loop" ]_vars

\* C13 witness: the peer closed an open session and the task is back at the
\* top of its loop with the socket closed.
C13_Witness ==
    /\ last.op = "recv"
    /\ last.ret = 0
    /\ state = NETWORK_STATE_WIFI_CONNECTED
    /\ sock_fd = -1
    /\ open_fds = {}
    /\ task[1] = "loop"

\* The step just taken demoted the session: a read returned 0 or an error, or
\* a write failed.
C14_Demoted ==
    \/ last.op = "recv" /\ last.ret <= 0
    \/ last.op = "send" /\ last.ret < 0

\* C14: when the task comes to the top of its loop right after a demotion, it
\* sleeps for the reconnect interval before it tries to connect again.
C14_SleepBeforeReconnect ==
    [][ (/\ C14_Demoted
         /\ running
         /\ state = NETWORK_STATE_WIFI_CONNECTED
         /\ task_loop(1))
        => task'[1] # "connect" ]_vars

\* C14 as the code has it: right after a demotion the task goes from the top
\* of its loop straight to connect_to_server; the reconnect-interval sleep
\* follows every connect attempt, and an attempt starts only from the top of
\* the loop, so a sleep separates any two attempts.
C14_ReconnectThenSleep ==
    [][ /\ (/\ C14_Demoted
            /\ running
            /\ state = NETWORK_STATE_WIFI_CONNECTED
            /\ task_loop(1))
           => task'[1] = "connect"
        /\ \A t \in Tasks :
             /\ (task[t] = "connect" /\ task'[t] # "connect") => task'[t] = "delay"
             /\ (task'[t] = "connect" /\ task[t] # "connect") => task[t] = "loop" ]_vars

\* C14 witness: the session was lost and the task is in connect_to_server
\* again, the demotion being the last thing that wrote the state and the socket.
C14_Witness ==
    /\ task[1] = "connect"
    /\ running
    /\ state = NETWORK_STATE_WIFI_CONNECTED
    /\ sock_fd = -1
    /\ stats.reconnect_count = 1
    /\ wifi = "up"

\* C15: a send refused with NETWORK_ERR_QUEUE_FULL leaves the four stats
\* counters as they were.
C15_QueueFullNotCounted ==
    [][ (/\ last'.op = "network_send_message"
         /\ last'.ret = NETWORK_ERR_QUEUE_FULL)
        => /\ stats'.send_errors = stats.send_errors
           /\ stats'.messages_sent = stats.messages_sent
           /\ stats'.messages_received = stats.messages_received
           /\ stats'.reconnect_count = stats.reconnect_count ]_vars

\* C15 witness: the eleventh message was refused while nothing had been
\* dequeued yet: send_errors and messages_sent are still 0.
C15_Witness ==
    /\ last.op = "network_send_message"
    /\ last.ret = NETWORK_ERR_QUEUE_FULL
    /\ Len(tx_queue) = 10
    /\ stats.send_errors = 0
    /\ stats.messages_sent = 0

\* C16: the queue holds between 0 and 10 messages.
C16_QueueWithinCapacity == Len(tx_queue) >= 0 /\ Len(tx_queue) <= 10

\* C16 witness: the tenth message was accepted.
C16_Witness ==
    /\ last.op = "network_send_message"
    /\ last.ret = NETWORK_OK
    /\ Len(tx_queue) = 10

\* C17: a socket is open under sock_fd exactly when the state is
\* NETWORK_STATE_SERVER_CONNECTED.
C17_SocketIffSession ==
    (sock_fd \in open_fds) <=> (state = NETWORK_STATE_SERVER_CONNECTED)

\* C18: no step other than network_init makes a stats counter smaller.
C18_StatsMonotonic ==
    [][ last'.op # "network_init"
        => /\ stats'.messages_sent >= stats.messages_sent
           /\ stats'.messages_received >= stats.messages_received
           /\ stats'.send_errors >= stats.send_errors
           /\ stats'.reconnect_count >= stats.reconnect_count ]_vars

\* C18 witness: every counter has moved, the instance having been stopped and
\* started again since.
C18_Witness ==
    /\ stats.messages_sent = 1
    /\ stats.messages_received = 1
    /\ stats.send_errors = 1
    /\ stats.reconnect_count = 1
    /\ last.op = "network_stop"

C20_ReinitRejected ==
    [][ (last'.op = "network_init" /\ initialized)
        => /\ last'.ret # NETWORK_OK
           /\ tx_queue' = tx_queue
           /\ stats' = stats
           /\ state' = state
           /\ running' = running
           /\ sock_fd' = sock_fd ]_vars

\* C21: network_deinit, from any state, first does what network_stop does and
\* then leaves the instance uninitialised: running clear, no socket open under
\* the handle, state DISCONNECTED, statistics zero, queue, event group and
\* mutex released; and once it has returned network_task makes no access to
\* the released queue or mutex.
C21_DeinitReleasesSafely ==
    [][ /\ last'.op = "network_deinit"
           => /\ ~running'
              /\ sock_fd' \notin open_fds'
              /\ state' = NETWORK_STATE_DISCONNECTED
              /\ stats' = zero_stats
              /\ ~initialized'
              /\ tx_queue' = << >>
              /\ wifi_event_group' = {}
        /\ last'.op # "released_access" ]_vars

\* C22: once network_stop has cleared running, wherever network_task is in its
\* iteration, the task exits (unless the instance is started again first)
\* without beginning another iteration body, and when it has exited no socket
\* is open under the handle and the queue is still owned by the context.
C22_Exits == (~running /\ Alive # {}) ~> (Alive = {} \/ running)
C22_NoNewIteration ==
    [][ \A t \in Alive :
            (~running /\ task[t] = "loop" /\ task'[t] # "loop") => task'[t] = "none" ]_vars
C22_ExitLeavesNothing ==
    [][ \A t \in Alive :
            task'[t] = "none" => (sock_fd' \notin open_fds' /\ initialized') ]_vars
C22_StopEndsWorkerCleanly == C22_Exits /\ C22_NoNewIteration /\ C22_ExitLeavesNothing

\* C23: once the event handler has set WIFI_FAIL_BIT (retries exhausted) and
\* until the link is started again, the state is DISCONNECTED and stays so and
\* no further esp_wifi_connect is made, whatever network_task does meanwhile.
C23_LinkFailed == wifi = "idle"
C23_FailedStaysDisconnected ==
    [][ C23_LinkFailed'
           => /\ state' = NETWORK_STATE_DISCONNECTED
              /\ C23_LinkFailed => link_attempts' = link_attempts ]_vars

\* C24: while running is set and the link stays up, a transport failure (a
\* failed connect, a peer close, a read or a write error, each leaving
\* WIFI_CONNECTED) never ends network_task and is followed by connect
\* attempts until the relay accepts: the state becomes SERVER_CONNECTED again.
C24_WorkerSurvives ==
    [][ \A t \in Alive : running => task'[t] # "none" ]_vars
C24_AwaitingSession ==
    /\ state = NETWORK_STATE_WIFI_CONNECTED
    /\ running
    /\ Alive # {}
    /\ stats.reconnect_count < MaxReconnects
C24_SessionAgain ==
    C24_AwaitingSession
        ~> (state = NETWORK_STATE_SERVER_CONNECTED \/ ~running \/ wifi # "up")
C24_RetriesUntilSession == C24_WorkerSurvives /\ C24_SessionAgain
\* a read failure has just demoted a session that was not the first
C24_Witness ==
    /\ last.op = "recv" /\ last.ret <= 0
    /\ C24_AwaitingSession
    /\ stats.reconnect_count >= 1
    /\ wifi = "up"

\* C25: while network_task runs and the state stays SERVER_CONNECTED, the
\* message at the head of the queue is in the end taken out and written to
\* the socket (messages_sent goes up), also when the relay sends nothing and
\* every select ends by its timeout; the queue being first in first out, this
\* reaches every accepted message.
C25_Serving == state = NETWORK_STATE_SERVER_CONNECTED /\ running /\ Alive # {}
C25_QueueServiced ==
    \A k \in 0..(MaxSent - 1) :
        (C25_Serving /\ tx_queue # << >> /\ stats.messages_sent = k)
            ~> (stats.messages_sent > k \/ ~C25_Serving)
\* the second message has been written in a session that received nothing
C25_Witness ==
    /\ last.op = "send" /\ last.ret > 0
    /\ stats.messages_sent = MaxSent
    /\ stats.messages_received = 0
    /\ C25_Serving

\* C26: network_start on an instance that is not running returns only when the
\* bring-up it began has resolved (never while its esp_wifi_start has not even
\* led to a connection attempt): NETWORK_OK with running set and network_task
\* created, or NETWORK_ERR_WIFI_FAILED with running clear and no task created;
\* and it does return when every attempt ends with an event.
C26_Returns == last'.op = "network_start" /\ app = "wifi_init_sta"
C26_ReturnsResolved ==
    [][ C26_Returns
           => /\ wifi' # "started"
              /\ last'.ret = NETWORK_OK
                    => running' /\ \E t \in Tasks : task[t] = "none" /\ task'[t] = "loop"
              /\ last'.ret = NETWORK_ERR_WIFI_FAILED
                    => ~running' /\ task' = task ]_vars
C26_StartTerminates == (app = "wifi_init_sta") ~> (app = "idle")
C26_StartResolvesBringUp == C26_ReturnsResolved /\ C26_StartTerminates

\* C27: the failure bit is raised on the 5th consecutive link-loss event (the
\* initial attempt and 4 retries have failed since the last link-up) and not
\* on a later one.  link_attempts is the number of loss events already
\* answered by a retry.
C27_LossEvent == last'.op = "WIFI_EVENT_STA_DISCONNECTED"
C27_FailOnFifthLoss ==
    [][ C27_LossEvent
           => (last'.out = WIFI_FAIL_BIT <=> link_attempts >= WIFI_MAX_RETRY_COUNT - 1) ]_vars

\* C27 as the handler has it: the failure bit is raised on the loss event that
\* finds WIFI_MAX_RETRY_COUNT retries already made since the last link-up: the
\* 6th consecutive loss, the initial attempt and 5 retries having failed; every
\* earlier loss is answered by a retry.
C27_FailAfterFiveRetries ==
    [][ C27_LossEvent
           => /\ last'.out = WIFI_FAIL_BIT <=> link_attempts = WIFI_MAX_RETRY_COUNT
              /\ last'.out # WIFI_FAIL_BIT => link_attempts' = link_attempts + 1 ]_vars
\* the bring-up of network_start has just ended on the failure bit
C27_Witness ==
    /\ last.op = "WIFI_EVENT_STA_DISCONNECTED"
    /\ last.out = WIFI_FAIL_BIT
    /\ last.arg = WIFI_MAX_RETRY_COUNT
    /\ app = "wifi_init_sta"
    /\ WIFI_CONNECTED_BIT \notin wifi_event_group

\* C28: a failed write of a dequeued message adds exactly 1 to send_errors,
\* leaves messages_sent, closes the socket and sets WIFI_CONNECTED; a write
\* that succeeds adds exactly 1 to messages_sent and leaves send_errors, the
\* socket and the state.
C28_WriteOutcomeCounted ==
    [][ last'.op = "send"
           => IF last'.ret < 0
              THEN /\ stats'.send_errors = stats.send_errors + 1
                   /\ stats'.messages_sent = stats.messages_sent
                   /\ sock_fd' = -1 /\ sock_fd \notin open_fds'
                   /\ state' = NETWORK_STATE_WIFI_CONNECTED
              ELSE /\ stats'.messages_sent = stats.messages_sent + 1
                   /\ stats'.send_errors = stats.send_errors
                   /\ sock_fd' = sock_fd /\ open_fds' = open_fds
                   /\ state' = state ]_vars
\* a write has failed after another had succeeded on the same session
C28_Witness ==
    /\ last.op = "send" /\ last.ret < 0
    /\ stats.send_errors = 1
    /\ stats.messages_sent = 1
    /\ stats.reconnect_count = 1
    /\ state = NETWORK_STATE_WIFI_CONNECTED

\* C29: a connect_to_server that fails, at socket(), at inet_pton() or at
\* connect(), leaves no socket open under the handle and none more than
\* before, leaves the state as it was (WIFI_CONNECTED when it was so at the
\* call), sends no handshake and leaves reconnect_count.
C29_ConnectFails == last'.op = "connect_to_server" /\ last'.ret # NETWORK_OK
C29_FailedConnectLeavesNothing ==
    [][ C29_ConnectFails
           => /\ last'.arg \in {"socket", "inet_pton", "connect"}
              /\ last'.ret = NETWORK_ERR_SERVER_FAILED
              /\ sock_fd' = -1
              /\ open_fds' = open_fds
              /\ state' = state
              /\ state = NETWORK_STATE_WIFI_CONNECTED => state' = NETWORK_STATE_WIFI_CONNECTED
              /\ last'.out = << >>
              /\ stats'.reconnect_count = stats.reconnect_count ]_vars
\* connect() has just been refused on a link that is up
C29_Witness ==
    /\ last.op = "connect_to_server" /\ last.arg = "connect"
    /\ last.ret = NETWORK_ERR_SERVER_FAILED
    /\ state = NETWORK_STATE_WIFI_CONNECTED
    /\ sock_fd = -1 /\ open_fds = {}
    /\ stats.reconnect_count = 0

\* C30: reconnect_count goes up by exactly 1 with each connect_to_server that
\* succeeds and by 0 with one that fails; the state is set to SERVER_CONNECTED
\* by a successful connect_to_server only, and reconnect_count changes
\* otherwise only by network_init zeroing it: it is the number of times the
\* state was set to SERVER_CONNECTED since network_init.
C30_Connected == last'.op = "connect_to_server" /\ last'.ret = NETWORK_OK
C31_EmptyLines(chunk) == { e \in 1..Len(chunk) : chunk[e] = NL /\ (e = 1 \/ chunk[e - 1] = NL) }
C31_Delimiters(chunk) == { e \in 1..Len(chunk) : chunk[e] = NL }
C31_EmptyLinesSkipped ==
    [][ (last'.op = "recv" /\ last'.ret > 0)
           => LET chunk == last'.arg
                  n == Cardinality(C31_Delimiters(chunk)) - Cardinality(C31_EmptyLines(chunk))
              IN  /\ stats'.messages_received = stats.messages_received + n
                  /\ Len(last'.out) = IF message_callback THEN n ELSE 0
                  /\ \A i \in DOMAIN last'.out :
                        /\ last'.out[i].length = Len(last'.out[i].message)
                        /\ last'.out[i].length > 0
                        /\ \A j \in DOMAIN last'.out[i].message :
                              last'.out[i].message[j] # NL ]_vars
\* a chunk with an empty line between two lines has been read: two calls
C31_Witness ==
    /\ last.op = "recv"
    /\ C31_EmptyLines(last.arg) # {}
    /\ Len(last.out) = 2
    /\ stats.messages_received = 2

\* C32: every read and every write of g_network_ctx.state, by network_task,
\* by the event handler and by the API, is made with state_mutex taken, and
\* the mutex is given back.  The assignment of network_init is let through
\* as long as no task and no event handler exists that could share the field.
C32_Alone == Alive = {} /\ wifi = "off"
C32_StateUnderMutex ==
    \A a \in state_access :
        \/ a.taken /\ a.given
        \/ a.by = "api" /\ a.kind = "write" /\ C32_Alone

\* C33: while a network_task is alive, no step other than a step of the task
\* (an API call on another thread, an event) changes sock_fd or closes or
\* opens a socket.
C33_Socket == << sock_fd, open_fds >>
C33_OnlyTaskTouchesSocket ==
    [][ (Alive # {} /\ task' = task) => C33_Socket' = C33_Socket ]_vars

\* C33 as the code has it: sockets are opened by connect_to_server in
\* network_task only; apart from the task's own steps the handle is changed
\* by close_socket in network_stop (also when network_deinit calls it), on the
\* caller's thread and whether or not a task is alive, and by network_init
\* and network_deinit writing -1 over it without closing anything.
C33_SocketTouchedByTaskAndStop ==
    [][ /\ open_fds' \ open_fds # {}
             => last'.op = "connect_to_server" /\ task' # task
        /\ (task' = task /\ C33_Socket' # C33_Socket)
             => \/ /\ running /\ ~running'
                   /\ sock_fd' = -1
                   /\ open_fds' = open_fds \ {sock_fd}
                \/ /\ last'.op \in {"network_init", "network_deinit"}
                   /\ sock_fd' = -1
                   /\ open_fds' = open_fds ]_vars
\* network_stop has closed the session's socket under a task that is alive
C33_Witness ==
    /\ app = "network_stop"
    /\ Alive # {}
    /\ state = NETWORK_STATE_SERVER_CONNECTED
    /\ sock_fd = -1
    /\ open_fds = {}

\* C34: the queue loses messages to network_task only, one per iteration, from
\* its head, and only in an iteration that found SERVER_CONNECTED at its top
\* (the read and write paths are entered from the loop test with that state
\* only); whatever the state, an accepted message is appended and stays in
\* order until then; and a message is written on a socket that
\* connect_to_server opened and handed its handshake line first.
C34_Dequeue(t) ==
    /\ task[t] = "tx" /\ task'[t] = "loop"
    /\ tx_queue # << >> /\ tx_queue' = Tail(tx_queue)
    /\ last'.op = "send" /\ last'.arg = Head(tx_queue).data
C34_Enqueue ==
    /\ last'.op = "network_send_message" /\ last'.ret = NETWORK_OK
    /\ Len(tx_queue') = Len(tx_queue) + 1
    /\ SubSeq(tx_queue', 1, Len(tx_queue)) = tx_queue
C34_QueueServedInSession ==
    [][ /\ \A t \in Tasks :
              /\ (task'[t] = "select" /\ task[t] # "select")
                    => task[t] = "loop" /\ running /\ state = NETWORK_STATE_SERVER_CONNECTED
              /\ (task'[t] = "tx" /\ task[t] # "tx") => task[t] = "select"
        /\ tx_queue' # tx_queue => C34_Enqueue \/ \E t \in Tasks : C34_Dequeue(t)
        /\ last'.op = "send" => \E t \in Tasks : task[t] = "tx" /\ task'[t] = "loop"
        /\ (last'.op = "send" /\ last'.ret >= 0) => sock_fd \in open_fds /\ sock_fd' = sock_fd
        /\ (sock_fd' \in open_fds' /\ sock_fd' # sock_fd)
              => last'.op = "connect_to_server" /\ last'.arg = Hello ]_vars
\* the first message written has just gone out on the second session, the
\* first session having carried none
C34_Witness ==
    /\ last.op = "send" /\ last.ret > 0
    /\ stats.reconnect_count = 2
    /\ stats.messages_sent = 1
    /\ stats.send_errors = 0
    /\ state = NETWORK_STATE_SERVER_CONNECTED

\* C35: between the steps of network_task, the number of network_send_message
\* calls that returned NETWORK_OK since network_init equals the messages in
\* the queue plus messages_sent plus send_errors: the sum goes up by 1 with
\* each such call, is zeroed by network_init and is left by every other step;
\* and a message whose write failed has left the queue and is in it no more.
C35_Accounted == Len(tx_queue) + stats.messages_sent + stats.send_errors
C35_MessagesConserved ==
    [][ /\ C35_Accounted' =
              IF last'.op = "network_send_message" /\ last'.ret = NETWORK_OK
              THEN C35_Accounted + 1
              ELSE IF last'.op = "network_init" /\ last'.ret = NETWORK_OK
              THEN 0
              ELSE C35_Accounted
        /\ last'.op = "send"
              => /\ tx_queue' = Tail(tx_queue)
                 /\ last'.arg = Head(tx_queue).data
                 /\ last'.ret < 0 => stats'.send_errors = stats.send_errors + 1 ]_vars
\* a write has failed with the queue at its capacity: ten accepted messages
\* are nine queued and one counted as an error
C35_Witness ==
    /\ last.op = "send" /\ last.ret < 0
    /\ Len(tx_queue) = NETWORK_QUEUE_SIZE - 1
    /\ stats.send_errors = 1
    /\ stats.messages_sent = 0

\* C36: connect_to_server is never begun while sock_fd holds an open socket,
\* whatever link-loss and link-up events came before: no open handle is
\* overwritten, at most one socket is open and it is the one sock_fd holds.
C36_OneSocketNoneLeaked ==
    [][ /\ last'.op = "connect_to_server" => sock_fd \notin open_fds
        /\ Cardinality(open_fds') <= 1
        /\ open_fds' \subseteq {sock_fd'} ]_vars

\* C37: whatever network_start and network_stop calls are made, at most one
\* network_task is alive: a network_start after network_stop has returned
\* never leaves the earlier task running beside the new one.
C37_OneWorker == Cardinality(Alive) <= 1

\* C38: whenever network_task does its select and recv, or its send, sock_fd
\* holds an open socket, also when network_stop runs during the iteration and
\* when the task runs on a SERVER_CONNECTED left from before a network_stop.
C38_UsesSocket(t) ==
    \/ task[t] = "select" /\ task'[t] # "select"
    \/ task[t] = "tx" /\ last'.op = "send"
C38_HandleOpenWhenUsed ==
    [][ \A t \in Tasks : C38_UsesSocket(t) => sock_fd \in open_fds ]_vars

\* C39: network_task never takes the state out of
\* NETWORK_STATE_DISCONNECTED; the only step that does is the handling of
\* IP_EVENT_STA_GOT_IP, also when WIFI_EVENT_STA_DISCONNECTED falls between
\* the task's state test and its set_state after connect, recv or send.
C39_LeavesDisconnected ==
    state = NETWORK_STATE_DISCONNECTED /\ state' # NETWORK_STATE_DISCONNECTED
C39_OnlyGotIpLeavesDisconnected ==
    [][ C39_LeavesDisconnected => last'.op = "IP_EVENT_STA_GOT_IP" ]_vars

\* ---------------------------------------------------------------------
\* PasoChan: the four attributes and their update functions.  The
\* attributes are int; `x += change` with x in 0..100 overflows exactly when
\* change > INT_MAX - x, which is undefined: the build either wraps (the
\* sum is negative and the lower check stores 0) or keeps the check
\* `x > 100` as if the sum had not overflowed (and stores 100).
INT_MAX == 2147483647
INT_MIN == (-INT_MAX) - 1
Changes == { INT_MIN, -25, 50, INT_MAX }

add_overflows(x, change) == change > INT_MAX - x
add_wrapped(x, change) == (x - INT_MAX - 1) + (change - INT_MAX - 1)
check_bounds(x) == IF x > 100 THEN 100 ELSE IF x < 0 THEN 0 ELSE x
update(x, change) ==
    IF add_overflows(x, change)
       THEN { check_bounds(add_wrapped(x, change)), check_bounds(INT_MAX) }
       ELSE { check_bounds(x + change) }

pet_step(op, change, ret) ==
    /\ last' = [op |-> op, arg |-> change, ret |-> ret, out |-> NULL]
    /\ UNCHANGED << ctx, open_fds, wifi, task, app, rx_pending,
                    link_attempts, state_access >>

update_health(change) ==
    /\ health' \in update(health, change)
    /\ UNCHANGED << hunger, happiness, stress >>
    /\ pet_step("update_health", change, health')

update_hunger(change) ==
    /\ hunger' \in update(hunger, change)
    /\ UNCHANGED << health, happiness, stress >>
    /\ pet_step("update_hunger", change, hunger')

update_happiness(change) ==
    /\ happiness' \in update(happiness, change)
    /\ UNCHANGED << health, hunger, stress >>
    /\ pet_step("update_happiness", change, happiness')

update_stress(change) ==
    /\ stress' \in update(stress, change)
    /\ UNCHANGED << health, hunger, happiness >>
    /\ pet_step("update_stress", change, stress')

NextPet ==
    \E change \in Changes :
        \/ update_health(change)
        \/ update_hunger(change)
        \/ update_happiness(change)
        \/ update_stress(change)

SpecPet == Init /\ [][NextPet]_vars

\* C40: the four attributes stay in 0..100; every update returns the value
\* it stored, that value is the previous one plus the change, brought into
\* 0..100, for every int change, and the other three attributes keep their
\* values.
C40_Attribute(op) ==
    CASE op = "update_health" -> << health, health' >>
      [] op = "update_hunger" -> << hunger, hunger' >>
      [] op = "update_happiness" -> << happiness, happiness' >>
      [] op = "update_stress" -> << stress, stress' >>
C40_Sum(x, change) ==
    IF change > 100 - x THEN 100 ELSE IF change < -x THEN 0 ELSE x + change
C40_Others(op) ==
    /\ op # "update_health" => health' = health
    /\ op # "update_hunger" => hunger' = hunger
    /\ op # "update_happiness" => happiness' = happiness
    /\ op # "update_stress" => stress' = stress
C40_UpdatesClamp ==
    [][ /\ \A x \in { health', hunger', happiness', stress' } : x \in 0..100
        /\ last'.ret = C40_Attribute(last'.op)[2]
        /\ last'.ret = C40_Sum(C40_Attribute(last'.op)[1], last'.arg)
        /\ C40_Others(last'.op) ]_vars

====
